---- MODULE Spec2Model ----
(***************************************************************************)
(* State-machine model of EthiopiaFIDataLoader (src/src/data_loader.py):   *)
(* the unified record table, its load-time validation, the three typed     *)
(* constructors, the derived views and the snapshot writer.                *)
(*                                                                         *)
(* Cell values are tagged pairs <<kind, payload>>:                         *)
(*   <<"str", s>>  a Python str           <<"num", n>>  a number          *)
(*   <<"ts", n>>   a pandas Timestamp     <<"nan", 0>>  NaN (missing)     *)
(*   <<"nat", 0>>  NaT (missing date)                                      *)
(*   <<"obs"|"evt"|"imp", sec>>  the str f"<prefix>_<strftime(now)>"       *)
(* A DataFrame is [none, cols, rows]: none marks Python None, cols is the  *)
(* set of column labels, rows the sequence of rows; a row maps every       *)
(* modelled column to a value, NaN where the frame has no such cell.       *)
(***************************************************************************)
EXTENDS Integers, Sequences, FiniteSets, TLC

VARIABLES
    looked,             \* whether a load has looked at the files yet
    disk_data,          \* the input CSV at data_path (absent: none)
    disk_ref,           \* the reference-codes CSV at ref_codes_path
    data,               \* self.data
    reference_codes,    \* self.reference_codes
    valid_codes_cache,  \* self.valid_codes_cache
    impact_links,       \* self.impact_links
    now,                \* the clock when a constructor last read it, in seconds
    log,                \* the warnings of the last load_all_data
    call,               \* the last public call: op, arguments, outcome
    prev                \* the call before it, kept when it was a constructor

vars == <<looked, disk_data, disk_ref, data, reference_codes, valid_codes_cache,
          impact_links, now, log, call, prev>>

---------------------------------------------------------------------------
(* Bounds of the model *)

MaxFileRows == 1
MaxRows == 2
MaxClock == 1

---------------------------------------------------------------------------
(* Values *)

Str(s) == <<"str", s>>
Num(n) == <<"num", n>>
TS(n) == <<"ts", n>>
NaN == <<"nan", 0>>
NaT == <<"nat", 0>>

IsNa(v) == v[1] \in {"nan", "nat"}
NotNa(v) == ~IsNa(v)

\* Truthy with every argument taken as falsy
TruthyNever(v) == FALSE

\* Python truthiness of an optional str argument (None is passed as NaN)
Truthy(v) == NotNa(v) /\ v # Str("")

Columns ==
    {"record_id", "record_type", "pillar", "indicator", "indicator_code",
     "value_numeric", "observation_date", "source_name", "confidence",
     "notes", "collection_date", "event_name", "event_date",
     "event_category", "parent_id", "impact_direction", "source_type",
     "target_date"}

\* The strings the model compares with <, in lexicographic order
Lex ==
    <<"2017-06-30", "2021-01-01", "2024-01-01", "NBE", "WorldBank",
      "high", "low", "medium", "not-a-date", "unknown">>

StrRank(s) == CHOOSE i \in 1..Len(Lex) : Lex[i] = s

\* a < b for two non-null values of one kind
Less(a, b) ==
    IF a[1] = "str" THEN StrRank(a[2]) < StrRank(b[2]) ELSE a[2] < b[2]

\* the date strings pd.to_datetime parses, with the day they denote
ParsedDay(s) ==
    CASE s = "2017-06-30" -> 2017
      [] s = "2021-01-01" -> 2021
      [] s = "2024-01-01" -> 2024
      [] OTHER -> 0

\* pd.to_datetime(v, errors='coerce') on one cell
ToDatetime(v) ==
    CASE v[1] = "ts" -> v
      [] v[1] = "str" /\ ParsedDay(v[2]) # 0 -> TS(ParsedDay(v[2]))
      [] OTHER -> NaT

---------------------------------------------------------------------------
(* Frames *)

NoneFrame == [none |-> TRUE, cols |-> {}, rows |-> <<>>]
EmptyFrame == [none |-> FALSE, cols |-> {}, rows |-> <<>>]

\* DataFrame.empty: some axis has length 0
IsEmpty(d) == d.rows = <<>> \/ d.cols = {}

\* NoneOrEmpty without the `.empty` test
NoneOnly(d) == d.none

\* `self.data is None or self.data.empty`
NoneOrEmpty(d) == d.none \/ IsEmpty(d)

\* pd.DataFrame([new_record]): one row holding the given keys
RowOf(keys, f) == [c \in Columns |-> IF c \in keys THEN f[c] ELSE NaN]

\* Concat with the operands swapped: the new row comes first
ConcatSwapped(d, keys, row) ==
    [none |-> FALSE, cols |-> d.cols \cup keys, rows |-> <<row>> \o d.rows]

\* pd.concat([d, new_df], ignore_index=True); a None entry is dropped
Concat(d, keys, row) ==
    [none |-> FALSE, cols |-> d.cols \cup keys, rows |-> Append(d.rows, row)]

ColumnValues(rows, c) == {rows[i][c] : i \in 1..Len(rows)}

---------------------------------------------------------------------------
(* External storage: the files load_all_data reads *)

\* the rows an input CSV may hold, as read_csv returns them (an empty cell
\* is NaN); R2 has an unparsable date and a pillar outside the catalog, R4
\* a confidence outside it and no pillar, R5 no record_type
CsvRow(k) ==
    CASE k = 1 ->
           [record_id |-> Str("R1"), record_type |-> Str("observation"),
            pillar |-> Str("access"), indicator |-> Str("Account ownership"),
            indicator_code |-> Str("ACC_OWN"), value_numeric |-> Num(10),
            observation_date |-> Str("2017-06-30"),
            source_name |-> Str("WorldBank"), confidence |-> Str("high"),
            source_type |-> Str("survey"),
            collection_date |-> Str("2024-01-01")]
      [] k = 2 ->
           [record_id |-> Str("R2"), record_type |-> Str("observation"),
            pillar |-> Str("bogus"), indicator |-> Str("Account ownership"),
            indicator_code |-> Str("ACC_OWN"), value_numeric |-> Num(17),
            observation_date |-> Str("not-a-date"),
            source_name |-> Str("NBE"), confidence |-> Str("medium"),
            source_type |-> Str("survey")]
      [] k = 3 ->
           [record_id |-> Str("R3"), record_type |-> Str("event"),
            indicator |-> Str("Telebirr launch"),
            indicator_code |-> Str("EVENT_POLICY"),
            event_name |-> Str("Telebirr launch"),
            event_date |-> Str("2021-01-01"),
            event_category |-> Str("policy"), source_name |-> Str("NBE"),
            confidence |-> Str("medium"), notes |-> Str("launch")]
      [] k = 4 ->
           [record_id |-> Str("R4"), record_type |-> Str("impact_link"),
            indicator |-> Str("Impact Link"),
            indicator_code |-> Str("IMPACT_LINK"), parent_id |-> Str("R3"),
            impact_direction |-> Str("positive"),
            confidence |-> Str("unknown")]
      [] OTHER ->
           [record_id |-> Str("R5"), indicator |-> Str("Mobile money"),
            indicator_code |-> Str("USG_MM"), value_numeric |-> Num(5),
            observation_date |-> Str("2024-01-01"),
            source_name |-> Str("NBE"), confidence |-> Str("low")]

CsvRowNumbers == {1, 2, 3, 4, 5}

\* the column sets an input CSV may lack
ColumnDrops == {{}, {"record_type"}, {"impact_direction", "observation_date"}}

\* the rows with the given template numbers, in ascending order
RECURSIVE CsvRows(_, _)
CsvRows(ks, drop) ==
    IF ks = {} THEN <<>>
    ELSE LET k == CHOOSE x \in ks : \A y \in ks : x <= y
             r == CsvRow(k)
         IN  <<RowOf((DOMAIN r) \ drop, r)>> \o CsvRows(ks \ {k}, drop)

CsvFiles ==
    {[none |-> FALSE, cols |-> Columns \ drop, rows |-> CsvRows(ks, drop)] :
        ks \in {x \in SUBSET CsvRowNumbers :
                    x # {} /\ Cardinality(x) <= MaxFileRows},
        drop \in ColumnDrops}

Code(f, c) == [field |-> f, code |-> Str(c)]

FullCatalog ==
    <<Code("record_type", "observation"), Code("record_type", "event"),
      Code("record_type", "impact_link"), Code("record_type", "target"),
      Code("pillar", "access"), Code("pillar", "usage"),
      Code("source_type", "survey"), Code("confidence", "high"),
      Code("confidence", "medium"), Code("confidence", "low")>>

\* a catalog with no codes for pillar
NoPillarCatalog == SelectSeq(FullCatalog, LAMBDA r : r.field # "pillar")

RefFiles ==
    {[none |-> FALSE, rows |-> FullCatalog],
     [none |-> FALSE, rows |-> NoPillarCatalog]}

NoRefFile == [none |-> TRUE, rows |-> <<>>]

\* what a load may find at (data_path, ref_codes_path): a file with every
\* column beside any catalog or none, a file lacking columns beside the
\* full catalog, neither file
FilePairs ==
    {<<f, r>> : f \in {x \in CsvFiles : x.cols = Columns},
                r \in RefFiles \cup {NoRefFile}}
    \cup {<<f, [none |-> FALSE, rows |-> FullCatalog]>> : f \in CsvFiles}
    \cup {<<NoneFrame, NoRefFile>>}

---------------------------------------------------------------------------
(* load_all_data and the checks it runs *)

Range(s) == {s[i] : i \in 1..Len(s)}

\* the first n elements
Take(s, n) == SubSeq(s, 1, IF Len(s) < n THEN Len(s) ELSE n)

\* Series.unique(): the distinct values in order of first appearance
RECURSIVE Unique(_)
Unique(s) ==
    IF s = <<>> THEN <<>>
    ELSE LET rest == Unique(SubSeq(s, 1, Len(s) - 1))
             x == s[Len(s)]
         IN  IF x \in Range(rest) THEN rest ELSE Append(rest, x)

\* pd.read_csv(path), FileNotFoundError caught: an empty frame
ReadCsv(file) == IF file.none THEN EmptyFrame ELSE file

ReadRef(file) == [none |-> FALSE, rows |-> file.rows]

RequiredColumns == {"record_id", "record_type", "indicator", "indicator_code"}

\* _validate_schema: the missing required columns (logged, nothing raised)
ValidateSchema(d) == {c \in RequiredColumns : c \notin d.cols}

CategoricalFields == <<"record_type", "pillar", "source_type", "confidence">>

SampleSize == 5

\* reference_codes[reference_codes['field'] == field]['code'].tolist()
ValidValues(ref, field) ==
    LET sel == SelectSeq(ref.rows, LAMBDA r : r.field = field)
    IN  [i \in 1..Len(sel) |-> sel[i].code]

\* InvalidMask without the isna() term
InvalidMaskNoIsna(d, field, valid) ==
    [i \in 1..Len(d.rows) |-> d.rows[i][field] \notin Range(valid)]

\* ~data[field].isin(valid_values) & ~data[field].isna()
InvalidMask(d, field, valid) ==
    [i \in 1..Len(d.rows) |->
        d.rows[i][field] \notin Range(valid) /\ ~IsNa(d.rows[i][field])]

\* data.loc[mask]: the rows the mask marks, in order
RECURSIVE Masked(_, _)
Masked(rows, mask) ==
    IF rows = <<>> THEN <<>>
    ELSE LET front == Masked(SubSeq(rows, 1, Len(rows) - 1), mask)
         IN  IF mask[Len(rows)] THEN Append(front, rows[Len(rows)]) ELSE front

\* the warning _validate_categorical_fields logs for one field
Finding(d, field, valid) ==
    LET mask == InvalidMask(d, field, valid)
        idx == {i \in 1..Len(d.rows) : mask[i]}
        bad == Masked(d.rows, mask)
    IN  [count |-> Cardinality(idx),
         values |-> Take(Unique([i \in 1..Len(bad) |-> bad[i][field]]),
                         SampleSize)]

\* the fields _validate_categorical_fields looks at
CheckedFields(d, ref) ==
    IF ref.rows = <<>> THEN {}
    ELSE {f \in Range(CategoricalFields) : f \in d.cols}

\* the warnings of _validate_categorical_fields, by field
CategoricalFindings(d, ref) ==
    LET flagged == {f \in CheckedFields(d, ref) :
                        /\ ValidValues(ref, f) # <<>>
                        /\ Finding(d, f, ValidValues(ref, f)).count > 0}
    IN  [f \in flagged |-> Finding(d, f, ValidValues(ref, f))]

\* self.valid_codes_cache after _validate_categorical_fields
CacheAfter(cache, d, ref) ==
    [f \in (DOMAIN cache) \cup CheckedFields(d, ref) |->
        IF f \in CheckedFields(d, ref) THEN ValidValues(ref, f) ELSE cache[f]]

DateColumns ==
    {"observation_date", "event_date", "target_date", "collection_date"}

\* _convert_dates
ConvertDates(d) ==
    [d EXCEPT !.rows =
        [i \in 1..Len(d.rows) |->
            [c \in Columns |->
                IF c \in DateColumns /\ c \in d.cols
                THEN ToDatetime(d.rows[i][c]) ELSE d.rows[i][c]]]]

\* _load_impact_links
LoadImpactLinks(d) ==
    IF "impact_direction" \in d.cols
    THEN [d EXCEPT !.rows =
            SelectSeq(d.rows, LAMBDA r : NotNa(r["impact_direction"]))]
    ELSE EmptyFrame

NoLog == [missing |-> {}, invalid |-> <<>>]

NoCall == [op |-> "none", args |-> <<>>, raised |-> "none",
           empty |-> TRUE, val |-> <<>>]

Returned(op, args, empty, val) ==
    [op |-> op, args |-> args, raised |-> "none", empty |-> empty, val |-> val]

Raised(op, args, exc) ==
    [op |-> op, args |-> args, raised |-> exc, empty |-> FALSE, val |-> <<>>]

ConstructorOps == {"add_observation", "add_event", "add_impact_link"}

ViewOps == {"get_record_type_stats", "get_temporal_coverage",
            "get_events_timeline", "get_observations_by_indicator"}

\* the constructor call a view directly follows, if any
Before(c) == IF c.op \in ConstructorOps THEN c ELSE NoCall

\* the loader as __init__ leaves it; no file has been looked for yet
Init ==
    /\ looked = FALSE
    /\ disk_data = NoneFrame
    /\ disk_ref = NoRefFile
    /\ data = NoneFrame
    /\ reference_codes = [none |-> TRUE, rows |-> <<>>]
    /\ valid_codes_cache = <<>>
    /\ impact_links = NoneFrame
    /\ now = 0
    /\ log = NoLog
    /\ call = NoCall
    /\ prev = NoCall

\* load_all_data finding `file` at data_path and `reffile` at ref_codes_path
LoadFrom(file, reffile) ==
    LET d == ReadCsv(file)
        ref == ReadRef(reffile)
    IN  /\ looked' = TRUE
        /\ disk_data' = file
        /\ disk_ref' = reffile
        /\ reference_codes' = ref
        /\ IF ~IsEmpty(d)
           THEN /\ data' = ConvertDates(d)
                /\ log' = [missing |-> ValidateSchema(d),
                           invalid |-> CategoricalFindings(d, ref)]
                /\ valid_codes_cache' = CacheAfter(valid_codes_cache, d, ref)
                /\ impact_links' = LoadImpactLinks(ConvertDates(d))
           ELSE /\ data' = d
                /\ log' = NoLog
                /\ UNCHANGED <<valid_codes_cache, impact_links>>
        /\ call' = Returned("load_all_data", <<>>, IsEmpty(d), <<>>)
        /\ prev' = NoCall
        /\ UNCHANGED now

\* the files stay as the first load finds them
load_all_data ==
    \E fp \in IF looked THEN {<<disk_data, disk_ref>>} ELSE FilePairs :
        LoadFrom(fp[1], fp[2])

---------------------------------------------------------------------------
(* The constructors *)

\* f"{prefix}_{datetime.now().strftime('%Y%m%d_%H%M%S')}": the prefix and
\* the second the clock shows
NewRecordId(prefix, t) == <<prefix, t>>

\* datetime.now().strftime('%Y-%m-%d'); the clock stays within one day
Today == Str("2024-01-01")

ObservationRecord(id, pillar, indicator, code, value, date, source, conf) ==
    [record_id |-> id, record_type |-> Str("observation"), pillar |-> pillar,
     indicator |-> indicator, indicator_code |-> code,
     value_numeric |-> value, observation_date |-> date,
     source_name |-> source, confidence |-> conf, notes |-> Str(""),
     collection_date |-> Today]

\* category.upper() for the categories the model passes
Upper(s) == CASE s = "policy" -> "POLICY" [] s = "product" -> "PRODUCT"
              [] OTHER -> s

\* f"EVENT_{category.upper()}"
EventCode(category) ==
    CASE Upper(category) = "POLICY" -> Str("EVENT_POLICY")
      [] Upper(category) = "PRODUCT" -> Str("EVENT_PRODUCT")
      [] OTHER -> Str("EVENT_")

EventRecord(id, name, date, category, descr, source, conf) ==
    [record_id |-> id, record_type |-> Str("event"), pillar |-> Str(""),
     indicator |-> name, indicator_code |-> EventCode(category),
     event_name |-> name, event_date |-> date,
     event_category |-> Str(category), source_name |-> source,
     confidence |-> conf, notes |-> descr, collection_date |-> Today]

ImpactLinkRecord(id, parent, pillar, direction) ==
    [record_id |-> id, record_type |-> Str("impact_link"), pillar |-> pillar,
     indicator |-> Str("Impact Link"), indicator_code |-> Str("IMPACT_LINK"),
     parent_id |-> parent, impact_direction |-> direction,
     notes |-> Str("Impact of parent on related"),
     collection_date |-> Today]

\* self.data = pd.concat([self.data, pd.DataFrame([new_record])])
AppendRecord(d, rec) == Concat(d, DOMAIN rec, RowOf(DOMAIN rec, rec))

\* the (indicator_code, value_numeric, observation_date) passed in
Observations ==
    {<<Str("ACC_OWN"), Num(10), Str("2021-01-01")>>,
     <<Str(""), Num(17), Str("2017-06-30")>>}

\* a constructor called at clock reading t: it appends rec and returns id
Constructed(op, args, t, id, rec) ==
    /\ Len(data.rows) < MaxRows
    /\ now' = t
    /\ data' = AppendRecord(data, rec)
    /\ call' = Returned(op, args, FALSE, id)
    /\ prev' = NoCall
    /\ UNCHANGED <<looked, disk_data, disk_ref, reference_codes,
                   valid_codes_cache, impact_links, log>>

add_observation ==
    \E o \in Observations, t \in now..MaxClock :
        LET id == NewRecordId("obs", t)
        IN  Constructed("add_observation",
                [indicator_code |-> o[1], value_numeric |-> o[2],
                 observation_date |-> o[3]],
                t, id,
                ObservationRecord(id, Str("access"), Str("Account ownership"),
                                  o[1], o[2], o[3], Str("NBE"),
                                  Str("medium")))

add_event ==
    \E t \in now..MaxClock :
        LET id == NewRecordId("evt", t)
        IN  Constructed("add_event",
                [category |-> "policy", event_date |-> Str("2021-01-01")],
                t, id,
                EventRecord(id, Str("Telebirr launch"), Str("2021-01-01"),
                            "policy", Str(""), Str(""), Str("medium")))

add_impact_link ==
    \E t \in now..MaxClock :
        LET id == NewRecordId("imp", t)
        IN  Constructed("add_impact_link",
                [impact_direction |-> Str("positive")], t, id,
                ImpactLinkRecord(id, Str("R3"), Str("usage"),
                                 Str("positive")))

---------------------------------------------------------------------------
(* The derived views *)

IsObservation(r) == r["record_type"] = Str("observation")
IsEvent(r) == r["record_type"] = Str("event")

\* a row put into a sequence sorted by column c, behind the rows that are
\* not greater
RECURSIVE Insert(_, _, _)
Insert(sorted, r, c) ==
    IF sorted = <<>> THEN <<r>>
    ELSE IF Less(r[c], sorted[Len(sorted)][c])
         THEN Append(Insert(SubSeq(sorted, 1, Len(sorted) - 1), r, c),
                     sorted[Len(sorted)])
         ELSE Append(sorted, r)

RECURSIVE Ordered(_, _)
Ordered(rows, c) ==
    IF rows = <<>> THEN <<>>
    ELSE Insert(Ordered(SubSeq(rows, 1, Len(rows) - 1), c), rows[Len(rows)], c)

\* whether sorting the column compares a str with a Timestamp (TypeError)
Incomparable(rows, c) ==
    \E i, j \in 1..Len(rows) :
        NotNa(rows[i][c]) /\ NotNa(rows[j][c]) /\ rows[i][c][1] # rows[j][c][1]

\* frame.sort_values(c): ascending, nulls last
SortValues(rows, c) ==
    Ordered(SelectSeq(rows, LAMBDA r : NotNa(r[c])), c)
        \o SelectSeq(rows, LAMBDA r : IsNa(r[c]))

\* self.data['record_type'].value_counts().to_dict(): NaN is not counted
ValueCounts(rows, c) ==
    [v \in {x \in ColumnValues(rows, c) : NotNa(x)} |->
        Cardinality({i \in 1..Len(rows) : rows[i][c] = v})]

RecordTypeStats(d) ==
    IF NoneOrEmpty(d) THEN Returned("get_record_type_stats", <<>>, TRUE, <<>>)
    ELSE IF "record_type" \notin d.cols
    THEN Raised("get_record_type_stats", <<>>, "KeyError")
    ELSE Returned("get_record_type_stats", <<>>, FALSE,
                  [counts |-> ValueCounts(d.rows, "record_type"),
                   total_records |-> Len(d.rows)])

\* whether the column holds Python strs (dtype object, not datetime64)
ObjectDtype(rows, c) == \E i \in 1..Len(rows) : rows[i][c][1] = "str"

\* whether min/max of the group's column raises TypeError: an object column
\* whose group holds a null or both strs and Timestamps
MinRaises(rows, g, c) ==
    /\ ObjectDtype(rows, c)
    /\ \/ \E i \in 1..Len(g) : IsNa(g[i][c])
       \/ Incomparable(g, c)

\* min or max of the non-null values, NaT when there is none
Extreme(g, c, least) ==
    LET vs == {g[i][c] : i \in {j \in 1..Len(g) : NotNa(g[j][c])}}
    IN  IF vs = {} THEN NaT
        ELSE CHOOSE v \in vs : \A w \in vs :
                IF least THEN ~Less(w, v) ELSE ~Less(v, w)

\* 'count': the non-null cells of the column
CountOf(g, c) == Cardinality({i \in 1..Len(g) : NotNa(g[i][c])})

\* x.mode()[0]: the most frequent non-null value, the least of them on a tie
ModeOf(g, c) ==
    LET counts == ValueCounts(g, c)
        top == {v \in DOMAIN counts : \A w \in DOMAIN counts :
                    counts[w] <= counts[v]}
    IN  CHOOSE v \in top : \A w \in top : ~Less(w, v)

CoverageColumns == {"indicator_code", "source_name", "confidence"}

TemporalCoverage(d) ==
    LET op == "get_temporal_coverage"
        obs == SelectSeq(d.rows, IsObservation)
        keys == {x \in ColumnValues(obs, "indicator_code") : NotNa(x)}
        group(k) == SelectSeq(obs, LAMBDA r : r["indicator_code"] = k)
    IN  IF NoneOrEmpty(d) THEN Returned(op, <<>>, TRUE, <<>>)
        ELSE IF "record_type" \notin d.cols THEN Raised(op, <<>>, "KeyError")
        ELSE IF obs = <<>> \/ "observation_date" \notin d.cols
        THEN Returned(op, <<>>, TRUE, <<>>)
        ELSE IF ~(CoverageColumns \subseteq d.cols)
        THEN Raised(op, <<>>, "KeyError")
        ELSE IF \E k \in keys : MinRaises(d.rows, group(k), "observation_date")
        THEN Raised(op, <<>>, "TypeError")
        ELSE IF \E k \in keys : ValueCounts(group(k), "confidence") = <<>>
        THEN Raised(op, <<>>, "KeyError")
        ELSE Returned(op, <<>>, keys = {},
                [k \in keys |->
                    [first_date |-> Extreme(group(k), "observation_date", TRUE),
                     last_date |-> Extreme(group(k), "observation_date", FALSE),
                     count |-> CountOf(group(k), "observation_date"),
                     sources |->
                        Take(Unique([i \in 1..Len(group(k)) |->
                                        group(k)[i]["source_name"]]),
                             SampleSize),
                     confidence |-> ModeOf(group(k), "confidence")]])

TimelineColumns ==
    {"record_id", "event_name", "event_date", "event_category",
     "source_name", "confidence", "notes"}

\* events[[...]]: the rows cut to the timeline's columns
Project(rows, cs) == [i \in 1..Len(rows) |-> [c \in cs |-> rows[i][c]]]

EventsTimeline(d) ==
    LET op == "get_events_timeline"
        events == SelectSeq(d.rows, IsEvent)
    IN  IF NoneOrEmpty(d) THEN Returned(op, <<>>, TRUE, <<>>)
        ELSE IF "record_type" \notin d.cols THEN Raised(op, <<>>, "KeyError")
        ELSE IF events = <<>> THEN Returned(op, <<>>, TRUE, <<>>)
        ELSE IF ~(TimelineColumns \subseteq d.cols)
        THEN Raised(op, <<>>, "KeyError")
        ELSE IF Incomparable(events, "event_date")
        THEN Raised(op, <<>>, "TypeError")
        ELSE Returned(op, <<>>, FALSE,
                      SortValues(Project(events, TimelineColumns),
                                 "event_date"))

ObservationsByIndicator(d, code) ==
    LET op == "get_observations_by_indicator"
        obs == SelectSeq(d.rows, IsObservation)
        sel == IF Truthy(code)
               THEN SelectSeq(obs, LAMBDA r : r["indicator_code"] = code)
               ELSE obs
    IN  IF NoneOrEmpty(d) THEN Returned(op, code, TRUE, <<>>)
        ELSE IF "record_type" \notin d.cols THEN Raised(op, code, "KeyError")
        ELSE IF obs = <<>> THEN Returned(op, code, TRUE, <<>>)
        ELSE IF Truthy(code) /\ "indicator_code" \notin d.cols
        THEN Raised(op, code, "KeyError")
        ELSE IF "observation_date" \notin d.cols
        THEN Raised(op, code, "KeyError")
        ELSE IF Incomparable(sel, "observation_date")
        THEN Raised(op, code, "TypeError")
        ELSE Returned(op, code, sel = <<>>,
                      SortValues(sel, "observation_date"))

\* Viewed with the filtered frame assigned back to self.data
ViewedAssigning(outcome) ==
    /\ call' = outcome
    /\ prev' = Before(call)
    /\ data' = [data EXCEPT !.rows = SelectSeq(@, IsObservation)]
    /\ UNCHANGED <<looked, disk_data, disk_ref, reference_codes,
                   valid_codes_cache, impact_links, now, log>>

\* a view is called: the loader's state stays, the outcome is handed back
Viewed(outcome) ==
    /\ call' = outcome
    /\ prev' = Before(call)
    /\ UNCHANGED <<looked, disk_data, disk_ref, data, reference_codes,
                   valid_codes_cache, impact_links, now, log>>

get_record_type_stats == Viewed(RecordTypeStats(data))

get_temporal_coverage == Viewed(TemporalCoverage(data))

get_events_timeline == Viewed(EventsTimeline(data))

QueryCodes == {Str("ACC_OWN"), Str("")}

get_observations_by_indicator ==
    \E code \in QueryCodes : Viewed(ObservationsByIndicator(data, code))

---------------------------------------------------------------------------
(* The snapshot writer *)

\* output paths, as their components
DefaultPath == <<"data", "processed", "ethiopia_fi_enriched.csv">>

OutputPaths == {<<>>, <<"enriched.csv">>}

\* os.path.dirname
Dirname(path) == SubSeq(path, 1, Len(path) - 1)

\* save_enriched_data(output_path), None passed as <<>>; a returned call
\* carries the frame written
SaveEnrichedData(d, output_path) ==
    LET op == "save_enriched_data"
        path == IF output_path = <<>> THEN DefaultPath ELSE output_path
    IN  IF d.none THEN Raised(op, output_path, "ValueError")
        ELSE IF Dirname(path) = <<>>
        THEN Raised(op, output_path, "FileNotFoundError")
        ELSE Returned(op, output_path, FALSE, d)

save_enriched_data ==
    \E output_path \in OutputPaths :
        /\ call' = SaveEnrichedData(data, output_path)
        /\ prev' = NoCall
        /\ UNCHANGED <<looked, disk_data, disk_ref, data, reference_codes,
                       valid_codes_cache, impact_links, now, log>>

Next ==
    \/ load_all_data
    \/ add_observation
    \/ add_event
    \/ add_impact_link
    \/ get_record_type_stats
    \/ get_temporal_coverage
    \/ get_events_timeline
    \/ get_observations_by_indicator
    \/ save_enriched_data

Spec == Init /\ [][Next]_vars

---------------------------------------------------------------------------
(* Properties *)

Rows == data.rows

Constructor == add_observation \/ add_event \/ add_impact_link

View ==
    \/ get_record_type_stats
    \/ get_temporal_coverage
    \/ get_events_timeline
    \/ get_observations_by_indicator

\* C1: record_id is unique across the whole table, also after constructor
\* calls: no two rows of the table carry the same record_id.
C1_RecordIdUnique ==
    \A i, j \in 1..Len(Rows) :
        i # j => Rows[i]["record_id"] # Rows[j]["record_id"]

\* C2: every constructor call lengthens the table by one, puts the new
\* record last, keeps every earlier record as it was and in place, and
\* returns the record_id of the record it appended.
C2_AppendOnly ==
    [][Constructor =>
        /\ Len(data'.rows) = Len(data.rows) + 1
        /\ \A i \in 1..Len(data.rows) : data'.rows[i] = data.rows[i]
        /\ call'.raised = "none"
        /\ data'.rows[Len(data'.rows)]["record_id"] = call'.val
        /\ data'.rows[Len(data'.rows)]["record_type"] =
              Str(CASE call'.op = "add_observation" -> "observation"
                    [] call'.op = "add_event" -> "event"
                    [] OTHER -> "impact_link")]_vars

C2_Witness ==
    /\ call.op \in ConstructorOps
    /\ Len(Rows) >= 2
    /\ Rows[Len(Rows)]["record_id"] = call.val
    /\ Rows[1]["record_id"] # call.val

\* the observation rows with the given indicator_code among rows
ObservationsWith(rows, code) ==
    {i \in 1..Len(rows) :
        /\ rows[i]["record_type"] = Str("observation")
        /\ rows[i]["indicator_code"] = code}

\* get_observations_by_indicator(code) called right after
\* add_observation(code, ...)
QueriedAfterAdd ==
    /\ call.op = "get_observations_by_indicator"
    /\ prev.op = "add_observation"
    /\ call.args = prev.args.indicator_code

OneMatchingRow ==
    /\ call.raised = "none"
    /\ Len(call.val) = 1
    /\ call.val[1]["value_numeric"] = prev.args.value_numeric
    /\ call.val[1]["observation_date"] = prev.args.observation_date

\* C3 as stated: add_observation followed at once by
\* get_observations_by_indicator with the same indicator_code returns exactly
\* one row, carrying the value_numeric and observation_date passed in,
\* whatever the store held before.
C3_ExactlyOneRow == QueriedAfterAdd => OneMatchingRow

\* C3 amended: the same, when the indicator_code is a non-empty string and
\* no observation record of the store carried it before the call.
C3_OneRowWhenFresh ==
    (/\ QueriedAfterAdd
     /\ call.args[1] = "str" /\ call.args # Str("")
     /\ ObservationsWith(SubSeq(Rows, 1, Len(Rows) - 1), call.args) = {})
        => OneMatchingRow

C3_Witness ==
    /\ QueriedAfterAdd
    /\ call.args = Str("ACC_OWN")
    /\ Len(Rows) >= 2
    /\ Rows[1]["record_type"] = Str("observation")
    /\ ObservationsWith(SubSeq(Rows, 1, Len(Rows) - 1), call.args) = {}
    /\ OneMatchingRow

RECURSIVE SumOf(_, _)
SumOf(f, S) ==
    IF S = {} THEN 0
    ELSE LET x == CHOOSE y \in S : TRUE IN f[x] + SumOf(f, S \ {x})

\* C4: on a non-empty store get_record_type_stats reports total_records equal
\* to the number of records and, per record_type, the number of records of
\* that type, the per-type counts adding up to total_records.
C4_StatsAccountForAll ==
    (call.op = "get_record_type_stats" /\ ~data.none /\ Rows # <<>>) =>
        /\ call.raised = "none"
        /\ ~call.empty
        /\ call.val.total_records = Len(Rows)
        /\ \A t \in DOMAIN call.val.counts :
              call.val.counts[t] =
                 Cardinality({i \in 1..Len(Rows) : Rows[i]["record_type"] = t})
        /\ SumOf(call.val.counts, DOMAIN call.val.counts) = Len(Rows)

\* C5: a derived view is a pure read: calling it leaves the record table,
\* the impact-link working set and the reference catalog as they were.
C5_ViewsArePureReads ==
    [][View => UNCHANGED <<data, impact_links, reference_codes>>]_vars

C5_Witness ==
    /\ call.op = "get_events_timeline"
    /\ call.raised = "none"
    /\ ~call.empty
    /\ Len(Rows) >= 2
    /\ Rows[Len(Rows)]["record_type"] # Str("event")
    /\ ~impact_links.none

\* the codes the catalog file lists for a field
Accepted(f) == {r.code : r \in {x \in Range(disk_ref.rows) : x.field = f}}

\* the rows of the input file whose value for f is non-empty and outside
\* the accepted set
Offending(f) ==
    {i \in 1..Len(disk_data.rows) :
        /\ disk_data.rows[i][f] # NaN
        /\ disk_data.rows[i][f] \notin Accepted(f)}

\* the number of rows the load reported for f
Flagged(f) == IF f \in DOMAIN log.invalid THEN log.invalid[f].count ELSE 0

JustLoaded == call.op = "load_all_data" /\ ~call.empty

\* C6 as stated: for each categorical field present in the table, the load
\* flags exactly the rows whose value is non-empty and outside the catalog's
\* accepted set for the field.
C6_FlaggedIffOutside ==
    JustLoaded =>
        \A f \in Range(CategoricalFields) \cap data.cols :
            Flagged(f) = Cardinality(Offending(f))

\* C6 amended: when the catalog lists at least one code for the field, the
\* load flags exactly the rows whose value is non-empty and outside the
\* accepted set, and reports offending values only; when the catalog is
\* absent or lists no code for the field, it flags nothing for the field;
\* either way the categorical values of the table stay as the file has them.
C6_FlaggedIffOutsideKnownSet ==
    JustLoaded =>
        \A f \in Range(CategoricalFields) \cap data.cols :
            /\ Accepted(f) # {} =>
                  /\ Flagged(f) = Cardinality(Offending(f))
                  /\ f \in DOMAIN log.invalid =>
                        Range(log.invalid[f].values) =
                           {disk_data.rows[i][f] : i \in Offending(f)}
            /\ Accepted(f) = {} => Flagged(f) = 0
            /\ \A i \in 1..Len(Rows) : Rows[i][f] = disk_data.rows[i][f]

C6_Witness ==
    /\ JustLoaded
    /\ Accepted("confidence") # {}
    /\ Flagged("confidence") = 1
    /\ Flagged("pillar") = 0
    /\ \E i \in 1..Len(Rows) : Rows[i]["pillar"] = NaN

\* C7: save_enriched_data raises and writes nothing when no table has been
\* loaded, leaving the store as it was; in every other state it writes the
\* current table without raising.
C7_SaveRaisesOnlyWhenNothingLoaded ==
    call.op = "save_enriched_data" =>
        IF data.none THEN call.raised = "ValueError" /\ call.val = <<>>
        ELSE call.raised = "none" /\ call.val = data

\* C8: a load never aborts on an absent input table or reference file; with
\* the input table absent the store holds an empty table after the load,
\* and on that table, as before any load, every derived view returns an
\* empty result without raising.
C8_AbsentFilesDegradeToEmpty ==
    /\ call.op = "load_all_data" =>
          /\ call.raised = "none"
          /\ ~data.none /\ ~reference_codes.none
          /\ disk_data.none => Rows = <<>>
          /\ disk_ref.none => reference_codes.rows = <<>>
    /\ (call.op \in ViewOps /\ Rows = <<>>) =>
          call.raised = "none" /\ call.empty /\ call.val = <<>>

C8_Witness ==
    /\ looked /\ disk_data.none /\ disk_ref.none
    /\ ~data.none /\ Rows = <<>>
    /\ call.op = "get_temporal_coverage"
    /\ call.raised = "none" /\ call.empty

\* C9: get_temporal_coverage reports, for every indicator_code with an
\* observation, first_date the earliest and last_date the latest
\* observation_date of its observation records and count the number of
\* observation records of that indicator_code.
C9_CoveragePerIndicator ==
    (call.op = "get_temporal_coverage" /\ call.raised = "none"
        /\ ~call.empty) =>
        \A k \in DOMAIN call.val :
            LET idx == ObservationsWith(Rows, k)
                dates == {Rows[i]["observation_date"] : i \in idx}
            IN  /\ call.val[k].count = Cardinality(idx)
                /\ call.val[k].first_date \in dates
                /\ call.val[k].last_date \in dates

\* C10: after a successful load and any constructor calls, the impact-link
\* working set is exactly the rows of the current table whose
\* impact_direction is non-empty.
C10_ImpactLinksAreAView ==
    (looked /\ ~disk_data.none) =>
        impact_links.rows =
            SelectSeq(Rows, LAMBDA r : NotNa(r["impact_direction"]))

====
